---- MODULE Spec2Model ----
(***************************************************************************)
(* Model of the Plex Recommendations integration                           *)
(* (custom_components/plex_recommendations).                                *)
(*                                                                         *)
(*   - the response handling of PlexRecommendationsSensor._fetch_data and   *)
(*     the sensor's state property, as operators over Python values;       *)
(*   - the config flow, the entry setup, the coordinator's refresh and the  *)
(*     sensors' fetch tasks, as a state machine (Spec);                    *)
(*   - one fetch of a freshly constructed sensor over a wide set of        *)
(*     responses (SpecNorm).                                               *)
(*                                                                         *)
(* The host framework (Home Assistant) is the environment.  Where the code *)
(* calls into it, the model follows the call: async_write_ha_state reads   *)
(* the entity's state property, the coordinator keeps the value returned   *)
(* by _async_update_data and calls its listeners in registration order.    *)
(***************************************************************************)
EXTENDS Integers, Sequences, FiniteSets, TLC

(***************************************************************************)
(* Bounds of the model.                                                    *)
(***************************************************************************)
MaxTextLen == 3      \* characters in a plain-text body
MaxItems == 2        \* elements in a JSON array
MaxInFlight == 2     \* fetch tasks of one sensor in flight at once
MaxRoster == 1       \* users in a roster

(***************************************************************************)
(* const.py                                                                *)
(***************************************************************************)
ATTR_GENERATED_AT == "generated_at"
ATTR_RECOMMENDATIONS == "recommendations"
ATTR_RECENT == "recent"

SensorTypes == {"recommendations", "recent"}

(***************************************************************************)
(* Python values: None, str, int, list, dict.  A dict is a function from   *)
(* its keys to values.                                                     *)
(***************************************************************************)
PyNone == [t |-> "none", v |-> <<>>]
PyStr(s) == [t |-> "str", v |-> s]
PyNum(n) == [t |-> "num", v |-> n]
PyList(s) == [t |-> "list", v |-> s]
PyDict(f) == [t |-> "dict", v |-> f]

EmptyDict == <<>>

\* dict.get(k, default)
Get(d, k, default) == IF k \in DOMAIN d THEN d[k] ELSE default

\* type(v).__name__
PyTypeName(v) ==
  CASE v.t = "none" -> "NoneType"
    [] v.t = "str" -> "str"
    [] v.t = "num" -> "int"
    [] v.t = "list" -> "list"
    [] v.t = "dict" -> "dict"

\* whether len(v) is defined
IsSized(v) == v.t \in {"str", "list", "dict"}

\* len(v), for a sized v
PyLen(v) == IF v.t = "dict" THEN Cardinality(DOMAIN v.v) ELSE Len(v.v)

(***************************************************************************)
(* The outcome of an expression or a block: a value, or a raised           *)
(* exception with its class and its str().                                 *)
(***************************************************************************)
Ret(v) == [exc |-> "", msg |-> "", val |-> v]
Raise(cls, m) == [exc |-> cls, msg |-> m, val |-> PyNone]

\* aiohttp.ClientError and its subclasses
ClientErrors == {"ClientConnectorError", "ClientPayloadError", "ContentTypeError"}

(***************************************************************************)
(* Text.  A text is a sequence of characters; Chars is the alphabet of the *)
(* plain-text bodies.                                                      *)
(***************************************************************************)
NL == "\n"
Whitespace == {" ", NL}
Chars == {"a", "b", " ", NL}

\* the characters of a text as one string
RECURSIVE Join(_)
Join(cs) == IF cs = <<>> THEN "" ELSE Head(cs) \o Join(Tail(cs))

\* str.strip()
RECURSIVE LStrip(_)
LStrip(cs) == IF cs # <<>> /\ Head(cs) \in Whitespace THEN LStrip(Tail(cs)) ELSE cs

RECURSIVE RStrip(_)
RStrip(cs) ==
  IF cs # <<>> /\ cs[Len(cs)] \in Whitespace THEN RStrip(SubSeq(cs, 1, Len(cs) - 1)) ELSE cs

Strip(cs) == RStrip(LStrip(cs))

\* str.splitlines(): the lines without their line breaks; a final line break
\* starts no further line
RECURSIVE SplitFrom(_, _)
SplitFrom(cs, cur) ==
  IF cs = <<>> THEN (IF cur = <<>> THEN <<>> ELSE <<cur>>)
  ELSE IF Head(cs) = NL THEN <<cur>> \o SplitFrom(Tail(cs), <<>>)
  ELSE SplitFrom(Tail(cs), Append(cur, Head(cs)))

SplitLines(cs) == SplitFrom(cs, <<>>)

\* [ln.strip() for ln in raw_text.splitlines() if ln.strip()]
RECURSIVE StrippedLines(_)
StrippedLines(lines) ==
  IF lines = <<>> THEN <<>>
  ELSE IF Strip(Head(lines)) = <<>> THEN StrippedLines(Tail(lines))
  ELSE <<PyStr(Join(Strip(Head(lines))))>> \o StrippedLines(Tail(lines))

NonEmptyLines(cs) == StrippedLines(SplitLines(cs))

\* The value of a multi-line plain scalar in YAML: the lines are stripped, a
\* single line break folds to a space, each blank line in between is kept as a
\* line break.
RECURSIVE FoldFrom(_, _)
FoldFrom(lines, blanks) ==
  IF lines = <<>> THEN <<>>
  ELSE IF Strip(Head(lines)) = <<>> THEN FoldFrom(Tail(lines), Append(blanks, NL))
  ELSE (IF blanks = <<>> THEN <<" ">> ELSE blanks) \o Strip(Head(lines))
         \o FoldFrom(Tail(lines), <<>>)

YamlFold(cs) ==
  LET lines == SplitLines(Strip(cs))
  IN Strip(Head(lines)) \o FoldFrom(Tail(lines), <<>>)

(***************************************************************************)
(* HTTP responses.  A body is JSON text, given by the value it encodes, or *)
(* plain text, given by its characters.                                    *)
(***************************************************************************)
JsonBody(v) == [kind |-> "json", val |-> v, text |-> <<>>]
TextBody(cs) == [kind |-> "text", val |-> PyNone, text |-> cs]

\* The text of a body: a JSON body is one line, written here as the printed
\* form of its value.
BodyText(body) == IF body.kind = "json" THEN <<ToString(body.val)>> ELSE body.text

\* "application/json" in ctype, over the header's parts (media type, parameters)
Contains(ctype, part) == \E i \in 1..Len(ctype) : ctype[i] = part

\* aiohttp ClientResponse.json(): reads the body, rejects a Content-Type other
\* than application/json, gives None for a blank body, else json.loads.
\* A timeout cancels the task at the read.
ResponseJson(resp) ==
  IF resp.read = "timeout" THEN Raise("CancelledError", "")
  ELSE IF resp.read = "client_error"
    THEN Raise("ClientPayloadError", "Response payload is not completed")
  ELSE IF ~Contains(resp.ctype, "application/json")
    THEN Raise("ContentTypeError", "Attempt to decode JSON with unexpected mimetype")
  ELSE IF resp.body.kind = "json" THEN Ret(resp.body.val)
  ELSE IF Strip(resp.body.text) = <<>> THEN Ret(PyNone)
  ELSE Raise("JSONDecodeError", "Expecting value: line 1 column 1 (char 0)")

\* aiohttp ClientResponse.text()
ResponseText(resp) ==
  IF resp.read = "timeout" THEN Raise("CancelledError", "")
  ELSE IF resp.read = "client_error"
    THEN Raise("ClientPayloadError", "Response payload is not completed")
  ELSE Ret(BodyText(resp.body))

\* yaml.safe_load(raw_text): a JSON text loads as its value, a blank text as
\* None, any other text over Chars as one plain scalar.  resp.yaml = FALSE is a
\* text the loader rejects, or a host without the yaml module.
YamlSafeLoad(resp) ==
  IF ~resp.yaml THEN Raise("YAMLError", "could not load")
  ELSE IF resp.body.kind = "json" THEN Ret(resp.body.val)
  ELSE IF Strip(resp.body.text) = <<>> THEN Ret(PyNone)
  ELSE Ret(PyStr(Join(YamlFold(resp.body.text))))

\* str(payload) of a scalar
PyToStr(v) ==
  CASE v.t = "str" -> v.v
    [] v.t = "num" -> ToString(v.v)
    [] OTHER -> "None"

(***************************************************************************)
(* PlexRecommendationsSensor                                               *)
(***************************************************************************)
\* ATTR_RECOMMENDATIONS if self._sensor_type == "recommendations" else ATTR_RECENT
Key(sensor_type) ==
  IF sensor_type = "recommendations" THEN ATTR_RECOMMENDATIONS ELSE ATTR_RECENT

\* the error records of _fetch_data
ErrorData(sensor_type, message) ==
  ("error" :> message) @@ (Key(sensor_type) :> PyList(<<>>))

\* sensor.py 172-180: normalize into expected structure
Normalize(sensor_type, payload) ==
  IF payload.t = "dict" THEN payload.v
  ELSE IF payload.t = "list" THEN (Key(sensor_type) :> payload)
  ELSE (Key(sensor_type) :> PyList(<<PyStr(PyToStr(payload))>>))

\* sensor.py 151-156: response.json() and the log line, whose argument
\* len(payload.get(key, [])) is evaluated before the payload is stored
JsonPayload(sensor_type, resp) ==
  LET j == ResponseJson(resp)
  IN IF j.exc # "" THEN j
     ELSE IF j.val.t # "dict"
       THEN Raise("AttributeError",
                  "'" \o PyTypeName(j.val) \o "' object has no attribute 'get'")
     ELSE IF ~IsSized(Get(j.val.v, Key(sensor_type), PyList(<<>>)))
       THEN Raise("TypeError",
                  "object of type '"
                    \o PyTypeName(Get(j.val.v, Key(sensor_type), PyList(<<>>)))
                    \o "' has no len()")
     ELSE j

\* sensor.py 159-170: response.text(), yaml.safe_load, the line fallback
TextPayload(resp) ==
  LET t == ResponseText(resp)
      y == YamlSafeLoad(resp)
  IN IF t.exc # "" THEN t
     ELSE IF y.exc # "" \/ y.val.t = "none" THEN Ret(PyList(NonEmptyLines(t.val)))
     ELSE y

\* sensor.py 145-182: the status 200 branch; the value is the new _data
Status200(sensor_type, resp) ==
  LET p == IF Contains(resp.ctype, "application/json")
             THEN JsonPayload(sensor_type, resp)
             ELSE TextPayload(resp)
  IN IF p.exc # "" THEN p ELSE Ret(Normalize(sensor_type, p.val))

\* sensor.py 184-189
Status404(sensor_type) == Ret(ErrorData(sensor_type, PyStr("Endpoint not found")))

\* sensor.py 193-197: the bare except takes every failure of response.json() and
\* of error_data.get, the cancellation of a timeout included
ErrorMsg(resp) ==
  LET j == ResponseJson(resp)
      http == PyStr("HTTP " \o ToString(resp.status))
  IN IF j.exc = "" /\ j.val.t = "dict" THEN Get(j.val.v, "detail", http) ELSE http

\* StatusOther with "except ValueError" in place of the bare except: only a
\* body that is not JSON falls back to "HTTP {status}"
StatusOtherExceptValueError(sensor_type, resp) ==
  LET j == ResponseJson(resp)
      http == PyStr("HTTP " \o ToString(resp.status))
  IN IF j.exc = "JSONDecodeError" THEN Ret(ErrorData(sensor_type, http))
     ELSE IF j.exc # "" THEN j
     ELSE IF j.val.t # "dict"
       THEN Raise("AttributeError",
                  "'" \o PyTypeName(j.val) \o "' object has no attribute 'get'")
     ELSE Ret(ErrorData(sensor_type, Get(j.val.v, "detail", http)))

\* sensor.py 191-210
StatusOther(sensor_type, resp) == Ret(ErrorData(sensor_type, ErrorMsg(resp)))

\* sensor.py 142-210: the body of the two async with blocks
Request(sensor_type, resp) ==
  IF resp.net = "timeout" THEN Raise("CancelledError", "")
  ELSE IF resp.net = "client_error"
    THEN Raise("ClientConnectorError", "Cannot connect to host")
  ELSE IF resp.status = 200 THEN Status200(sensor_type, resp)
  ELSE IF resp.status = 404 THEN Status404(sensor_type)
  ELSE StatusOther(sensor_type, resp)

\* sensor.py 141: async_timeout.timeout(10) turns the cancellation it caused
\* into asyncio.TimeoutError when the cancellation leaves the block
WithTimeout(o) == IF o.exc = "CancelledError" THEN Raise("TimeoutError", "") ELSE o

\* sensor.py 212-217: except aiohttp.ClientError
NetworkErrorData(sensor_type, o) ==
  ErrorData(sensor_type, PyStr("Network error: " \o o.msg))

\* sensor.py 218-223: except Exception
UnexpectedErrorData(sensor_type, o) ==
  ErrorData(sensor_type, PyStr("Unexpected error: " \o o.msg))

\* sensor.py 140-223: the try statement; the value is _data after it
TryFetch(sensor_type, resp) ==
  LET o == WithTimeout(Request(sensor_type, resp))
  IN IF o.exc = "" THEN o.val
     ELSE IF o.exc \in ClientErrors THEN NetworkErrorData(sensor_type, o)
     ELSE UnexpectedErrorData(sensor_type, o)

\* sensor.py 84-93: the state property
State(d, sensor_type) ==
  LET items == Get(d, Key(sensor_type), PyList(<<>>))
  IN IF IsSized(items) THEN Ret(PyLen(items))
     ELSE Raise("TypeError", "object of type '" \o PyTypeName(items) \o "' has no len()")

\* sensor.py 95-103: extra_state_attributes; a key of _data replaces user_id
ExtraStateAttributes(user_id, d) == d @@ ("user_id" :> PyStr(user_id))

\* The host's async_write_ha_state (sensor.py 226) reads the state property and
\* the attributes and stores them; an exception of the state property leaves
\* through it.  The value is the state written.
WriteHaState(user_id, sensor_type, d) ==
  LET s == State(d, sensor_type)
  IN IF s.exc # "" THEN Raise(s.exc, s.msg)
     ELSE Ret([state |-> s.val, attributes |-> ExtraStateAttributes(user_id, d)])

\* sensor.py 125-227: _fetch_data from the response to its end: the new _data,
\* the exception that leaves the coroutine ("" when none does), the state
\* written to the host and the number of completed writes
FetchData(user_id, sensor_type, resp) ==
  LET d == TryFetch(sensor_type, resp)
      w == WriteHaState(user_id, sensor_type, d)
  IN [data |-> d, exc |-> w.exc, written |-> w.val,
      writes |-> IF w.exc = "" THEN 1 ELSE 0]

(***************************************************************************)
(* The responses of the model.                                             *)
(***************************************************************************)
ItemA == PyDict("title" :> PyStr("A"))
ItemB == PyDict("title" :> PyStr("B"))
Items == {ItemA, ItemB}

Arrays == {PyList(s) : s \in UNION {[1..n -> Items] : n \in 0..MaxItems}}

Scalars == {PyNone, PyNum(5), PyStr("abc")}

\* JSON objects: an item list (or a scalar) under either list key or none, with
\* any of error, detail and generated_at
ListFields ==
  {EmptyDict} \cup {k :> v : k \in {ATTR_RECOMMENDATIONS, ATTR_RECENT},
                             v \in Arrays \cup Scalars}

OtherFields ==
  {[k \in ks |-> PyStr(IF k = "error" THEN "x"
                       ELSE IF k = "detail" THEN "db down" ELSE "t0")] :
     ks \in SUBSET {"error", "detail", ATTR_GENERATED_AT}}

Objects == {PyDict(l @@ o) : l \in ListFields, o \in OtherFields}

JsonValues == Objects \cup Arrays \cup Scalars

Texts == UNION {[1..n -> Chars] : n \in 0..MaxTextLen}

Bodies == {JsonBody(v) : v \in JsonValues} \cup {TextBody(cs) : cs \in Texts}

JsonCType == <<"application/json">>
JsonCharsetCType == <<"application/json", "charset=utf-8">>
TextCType == <<"text/plain">>
NoCType == <<>>
CTypes == {JsonCType, JsonCharsetCType, TextCType, NoCType}

Statuses == {200, 404, 500, 503}

\* a response that arrived: status and headers, then the body read
Answer(status, ctype, body, read, yaml) ==
  [net |-> "ok", status |-> status, ctype |-> ctype, body |-> body,
   read |-> read, yaml |-> yaml]

\* no response: the connection failed, or the 10 s ran out before the status
NoAnswer(net) ==
  [net |-> net, status |-> 0, ctype |-> NoCType, body |-> TextBody(<<>>),
   read |-> "ok", yaml |-> TRUE]

Responses ==
  {NoAnswer(n) : n \in {"client_error", "timeout"}} \cup
  {Answer(st, ct, b, rd, y) :
     st \in Statuses, ct \in CTypes, b \in Bodies,
     rd \in {"ok", "client_error", "timeout"}, y \in BOOLEAN}

\* the responses the sensors of the state machine receive from their endpoints,
\* /api/recommendations/{user_id} and /api/recent/{user_id}
SensorResponses(sensor_type) ==
  IF sensor_type = "recommendations"
    THEN { NoAnswer("timeout"),
           Answer(404, TextCType, TextBody(<<>>), "ok", TRUE),
           Answer(500, JsonCType, JsonBody(PyDict("detail" :> PyStr("db down"))),
                  "ok", TRUE),
           Answer(200, JsonCType,
                  JsonBody(PyDict((ATTR_RECOMMENDATIONS :> PyList(<<ItemA, ItemB>>))
                                    @@ (ATTR_GENERATED_AT :> PyStr("t0")))), "ok", TRUE),
           Answer(200, TextCType, TextBody(<<"a", NL, "b">>), "ok", TRUE),
           Answer(200, TextCType, JsonBody(PyDict(ATTR_RECOMMENDATIONS :> PyNone)),
                  "ok", TRUE) }
    ELSE { NoAnswer("client_error"),
           Answer(200, JsonCType, JsonBody(PyList(<<ItemA>>)), "ok", TRUE),
           Answer(200, JsonCType,
                  JsonBody(PyDict((ATTR_RECENT :> PyList(<<ItemA>>))
                                    @@ ("error" :> PyStr("x")))), "ok", TRUE) }

(***************************************************************************)
(* The roster: GET /api/users                                              *)
(***************************************************************************)
Users == {"u1"}

UserRecord(u) == PyDict(("id" :> PyStr(u)) @@ ("name" :> PyStr("Ann")))

Rosters ==
  {PyList(s) : s \in UNION {[1..n -> {UserRecord(u) : u \in Users}] : n \in 0..MaxRoster}}

PollResponses ==
  {NoAnswer(n) : n \in {"client_error", "timeout"}} \cup
  {Answer(500, JsonCType, TextBody(<<>>), "ok", TRUE)} \cup
  {Answer(200, JsonCType, JsonBody(r), "ok", TRUE) : r \in Rosters}

\* __init__.py 66-86: _async_update_data
UpdateData(resp) ==
  LET j == WithTimeout(ResponseJson(resp))
  IN IF resp.net = "timeout" THEN Raise("TimeoutError", "")
     ELSE IF resp.net = "client_error"
       THEN Raise("UpdateFailed", "Error communicating with API: Cannot connect to host")
     ELSE IF resp.status # 200
       THEN Raise("UpdateFailed", "Error fetching users: " \o ToString(resp.status))
     ELSE IF j.exc \in ClientErrors
       THEN Raise("UpdateFailed", "Error communicating with API: " \o j.msg)
     ELSE IF j.exc # "" THEN j
     ELSE Ret(PyDict("users" :> j.val))

(***************************************************************************)
(* The config flow: GET /health                                            *)
(***************************************************************************)
HealthOk == JsonBody(PyDict("status" :> PyStr("ok")))

HealthResponses ==
  {NoAnswer(n) : n \in {"client_error", "timeout"}} \cup
  {Answer(st, JsonCType, HealthOk, "ok", TRUE) : st \in {200, 401, 404, 500}} \cup
  {Answer(200, JsonCType, TextBody(<<"a">>), "ok", TRUE),
   Answer(200, TextCType, HealthOk, "ok", TRUE),
   Answer(200, JsonCType, HealthOk, "timeout", TRUE)}

\* "words" in str(err): the words occur in the message, in a row
HasWords(msg, words) ==
  \E i \in 0..(Len(msg) - Len(words)) : SubSeq(msg, i + 1, i + Len(words)) = words

\* ValueError and its subclasses (json.JSONDecodeError is one)
ValueErrors == {"ValueError", "JSONDecodeError"}

\* config_flow.py 23-50: validate_api; the message of an exception is its words
ValidateApi(resp) ==
  LET j == WithTimeout(ResponseJson(resp))
  IN IF resp.net = "timeout" THEN Raise("TimeoutError", <<>>)
     ELSE IF resp.net = "client_error"
       THEN Raise("ValueError", <<"Cannot", "connect", "to", "API">>)
     ELSE IF resp.status = 401 THEN Raise("ValueError", <<"Invalid", "API", "key">>)
     ELSE IF resp.status # 200
       THEN Raise("ValueError", <<"API", "returned", "status", ToString(resp.status)>>)
     ELSE IF j.exc \in ClientErrors
       THEN Raise("ValueError", <<"Cannot", "connect", "to", "API">>)
     ELSE IF j.exc = "JSONDecodeError" THEN Raise(j.exc, <<"Expecting", "value">>)
     ELSE IF j.exc # "" THEN Raise(j.exc, <<>>)
     ELSE IF j.val.t # "dict" THEN Raise("AttributeError", <<"no", "attribute", "get">>)
     ELSE Ret(PyStr("Plex Recommendations"))

\* config_flow.py 80-90: errors["base"] for an exception of validate_api
ErrorBase(o) ==
  IF o.exc \in ValueErrors
    THEN IF HasWords(o.msg, <<"API", "key">>) THEN "invalid_auth"
         ELSE IF HasWords(o.msg, <<"connect">>) THEN "cannot_connect"
         ELSE "unknown"
    ELSE "unknown"

(***************************************************************************)
(* The state machine.                                                      *)
(*   flow         the config flow: its step, errors["base"] and the        *)
(*                /health response of the last submitted form              *)
(*   entry        the config entry: none, not_loaded, setup_retry, loaded  *)
(*   coordinator  data, last_update_success, last_exception                *)
(*   listeners    the sensors added to the host, in the order they         *)
(*                registered with the coordinator                          *)
(*   sensors      the sensor objects by unique id: _data, the _fetch_data  *)
(*                tasks in flight in the order they started, which fetch   *)
(*                produced _data, and how the last completed fetch ended   *)
(*   hass_states  the state and attributes the host holds for each sensor  *)
(*   probe        the sensor and response of SpecNorm, and its result      *)
(***************************************************************************)
VARIABLES flow, entry, coordinator, listeners, sensors, hass_states, probe

vars == <<flow, entry, coordinator, listeners, sensors, hass_states, probe>>

NoException == [exc |-> "", msg |-> ""]
NoState == [state |-> -1, attributes |-> EmptyDict]
NoProbe == [phase |-> "off"]

\* sensor.py 67-75: __init__
NewSensor ==
  [_data |-> EmptyDict, tasks |-> <<>>, source |-> "init", exc |-> "", writes |-> 0]

\* sensor.py 36-57: two sensors for each user of the roster, by unique id
SensorIds(data) ==
  LET users == Get(data.v, "users", PyList(<<>>)).v
  IN {[user_id |-> users[i].v["id"].v, sensor_type |-> st] :
        i \in DOMAIN users, st \in {"recommendations", "recent"}}

\* a _fetch_data coroutine starts; it is now the most recently started one
StartFetch(s) ==
  [s EXCEPT !.tasks = Append([i \in DOMAIN s.tasks |-> [newest |-> FALSE]],
                             [newest |-> TRUE])]

RemoveAt(seq, i) == SubSeq(seq, 1, i - 1) \o SubSeq(seq, i + 1, Len(seq))

InitSystem ==
  /\ flow = [step |-> "form", errors |-> "", health |-> NoAnswer("none")]
  /\ entry = "none"
  /\ coordinator = [data |-> PyNone, last_update_success |-> TRUE,
                    last_exception |-> NoException]
  /\ listeners = <<>>
  /\ sensors = <<>>
  /\ hass_states = <<>>

Init == InitSystem /\ probe = NoProbe

\* config_flow.py 58-102: async_step_user with a submitted form
StepUser(resp) ==
  /\ flow.step = "form"
  /\ LET v == ValidateApi(resp)
     IN /\ flow' = [step |-> IF v.exc = "" THEN "create_entry" ELSE "form",
                    errors |-> IF v.exc = "" THEN "" ELSE ErrorBase(v),
                    health |-> resp]
        /\ entry' = IF v.exc = "" THEN "not_loaded" ELSE entry
  /\ UNCHANGED <<coordinator, listeners, sensors, hass_states, probe>>

\* __init__.py 21-37 and sensor.py 27-61: async_setup_entry.  A failed first
\* refresh ends the setup, which the host tries again later.
SetupEntry(resp) ==
  /\ entry \in {"not_loaded", "setup_retry"}
  /\ LET u == UpdateData(resp)
     IN IF u.exc # ""
          THEN /\ entry' = "setup_retry"
               /\ UNCHANGED <<coordinator, sensors, hass_states>>
          ELSE /\ entry' = "loaded"
               /\ coordinator' = [data |-> u.val, last_update_success |-> TRUE,
                                  last_exception |-> NoException]
               /\ sensors' = [id \in SensorIds(u.val) |-> NewSensor]
               /\ hass_states' = [id \in SensorIds(u.val) |-> NoState]
  /\ UNCHANGED <<flow, listeners, probe>>

\* sensor.py 118-123: async_added_to_hass.  The base class registers the
\* coordinator listener, then the first fetch starts.
AddedToHass(id) ==
  /\ entry = "loaded"
  /\ id \in DOMAIN sensors
  /\ \A i \in DOMAIN listeners : listeners[i] # id
  /\ listeners' = Append(listeners, id)
  /\ sensors' = [sensors EXCEPT ![id] = StartFetch(sensors[id])]
  /\ UNCHANGED <<flow, entry, coordinator, hass_states, probe>>

\* sensor.py 111-116: _handle_coordinator_update of the listeners in turn: each
\* starts a fetch task, then the base class writes the state; an exception of
\* that write leaves the callback and ends the round.
RECURSIVE UpdateListeners(_, _, _)
UpdateListeners(ls, ss, hs) ==
  IF ls = <<>> THEN [sensors |-> ss, hass_states |-> hs, exc |-> ""]
  ELSE LET id == Head(ls)
           started == [ss EXCEPT ![id] = StartFetch(ss[id])]
           w == WriteHaState(id.user_id, id.sensor_type, ss[id]._data)
       IN IF w.exc # "" THEN [sensors |-> started, hass_states |-> hs, exc |-> w.exc]
          ELSE UpdateListeners(Tail(ls), started, [hs EXCEPT ![id] = w.val])

\* One refresh of the coordinator (the timer, or a requested refresh):
\* _async_update_data, then the base class keeps the returned data or the
\* exception, and calls the listeners unless the refresh failed again.
Refresh(resp) ==
  /\ entry = "loaded"
  /\ \A i \in DOMAIN listeners : Len(sensors[listeners[i]].tasks) < MaxInFlight
  /\ \E u \in {UpdateData(resp)} :
     \E r \in {IF u.exc = "" \/ coordinator.last_update_success
                 THEN UpdateListeners(listeners, sensors, hass_states)
                 ELSE [sensors |-> sensors, hass_states |-> hass_states, exc |-> ""]} :
        /\ coordinator' =
             IF u.exc = ""
               THEN [data |-> u.val, last_update_success |-> TRUE,
                     last_exception |-> NoException]
               ELSE [coordinator EXCEPT !.last_update_success = FALSE,
                                        !.last_exception = [exc |-> u.exc, msg |-> u.msg]]
        /\ sensors' = r.sensors
        /\ hass_states' = r.hass_states
  /\ UNCHANGED <<flow, entry, listeners, probe>>

\* sensor.py 125-227: the response of the i-th fetch in flight arrives (or its
\* wait ends) and the coroutine runs to its end
CompleteFetch(id, i, resp) ==
  /\ id \in DOMAIN sensors
  /\ i \in DOMAIN sensors[id].tasks
  /\ \E r \in {FetchData(id.user_id, id.sensor_type, resp)} :
     LET s == sensors[id]
     IN /\ sensors' = [sensors EXCEPT ![id] =
                         [_data |-> r.data,
                          tasks |-> RemoveAt(s.tasks, i),
                          source |-> IF s.tasks[i].newest THEN "newest" ELSE "older",
                          exc |-> r.exc,
                          writes |-> r.writes]]
        /\ hass_states' = IF r.exc = "" THEN [hass_states EXCEPT ![id] = r.written]
                          ELSE hass_states
  /\ UNCHANGED <<flow, entry, coordinator, listeners, probe>>

AllSensorIds == {[user_id |-> u, sensor_type |-> st] : u \in Users, st \in SensorTypes}

Next ==
  \/ \E resp \in HealthResponses : StepUser(resp)
  \/ \E resp \in PollResponses : SetupEntry(resp)
  \/ \E id \in AllSensorIds : AddedToHass(id)
  \/ \E resp \in PollResponses : Refresh(resp)
  \/ \E id \in AllSensorIds, i \in 1..MaxInFlight :
       \E resp \in SensorResponses(id.sensor_type) : CompleteFetch(id, i, resp)

Spec == Init /\ [][Next]_vars

(***************************************************************************)
(* One fetch of a newly constructed sensor, over all Responses.            *)
(***************************************************************************)
InitNorm ==
  /\ InitSystem
  /\ probe \in {[phase |-> "fetching", user_id |-> u, sensor_type |-> st, resp |-> resp,
                 result |-> [data |-> EmptyDict, exc |-> "", written |-> NoState,
                             writes |-> 0]] :
                  u \in Users, st \in SensorTypes, resp \in Responses}

\* sensor.py 125-227: _fetch_data
Fetch ==
  /\ probe.phase = "fetching"
  /\ probe' = [probe EXCEPT !.phase = "idle",
                            !.result = FetchData(probe.user_id, probe.sensor_type, probe.resp)]
  /\ UNCHANGED <<flow, entry, coordinator, listeners, sensors, hass_states>>

NextNorm == Fetch

SpecNorm == InitNorm /\ [][NextNorm]_vars

(***************************************************************************)
(* Properties.                                                             *)
(***************************************************************************)
\* the result of the fetch of SpecNorm, once it has run
Fetched == probe.phase = "idle"
Result == probe.result
ItemsOf(d, sensor_type) == Get(d, Key(sensor_type), PyList(<<>>))
HasError(d) == "error" \in DOMAIN d
IsEmptyList(v) == v.t = "list" /\ v.v = <<>>

\* the state and attributes the host holds after a write of d
Written(id, d) ==
  [state |-> State(d, id.sensor_type).val,
   attributes |-> ExtraStateAttributes(id.user_id, d)]

\* C1: every completed fetch of every sensor ended without an exception leaving
\* _fetch_data, stored the record produced from one of the responses, and wrote
\* the state to the host once, so that the host holds the state and attributes
\* of the stored record.
C1_FetchNeverRaisesAndWritesOnce ==
  \A id \in DOMAIN sensors :
    sensors[id].source # "init" =>
      /\ sensors[id].exc = ""
      /\ sensors[id].writes = 1
      /\ \E resp \in SensorResponses(id.sensor_type) :
           sensors[id]._data = TryFetch(id.sensor_type, resp)
      /\ hass_states[id] = Written(id, sensors[id]._data)

\* C2: in every state, a sensor whose _data carries an error has an empty item
\* list under its own key, and its state is 0.
C2_ErrorHasNoItems ==
  \A id \in DOMAIN sensors :
    HasError(sensors[id]._data) =>
      /\ IsEmptyList(ItemsOf(sensors[id]._data, id.sensor_type))
      /\ State(sensors[id]._data, id.sensor_type).val = 0

\* C3: a status 200 response whose body is a JSON array (read in full, and
\* loaded as YAML when the Content-Type is not JSON) stores exactly that array
\* under the sensor's key, with no error, and the state is the array's length.
C3_JsonArrayStored ==
  ( /\ Fetched
    /\ probe.resp.net = "ok" /\ probe.resp.status = 200 /\ probe.resp.read = "ok"
    /\ probe.resp.body.kind = "json" /\ probe.resp.body.val.t = "list"
    /\ (Contains(probe.resp.ctype, "application/json") \/ probe.resp.yaml) )
  => /\ Result.data = (Key(probe.sensor_type) :> probe.resp.body.val)
     /\ Result.exc = ""
     /\ Result.written.state = Len(probe.resp.body.val.v)

\* whether the body of the response fails to parse on the path its
\* Content-Type selects: json.loads on the JSON path, the YAML load otherwise
ParseFails(resp) ==
  IF Contains(resp.ctype, "application/json")
    THEN resp.body.kind = "text" /\ Strip(resp.body.text) # <<>>
    ELSE ~resp.yaml

\* C4: a status 200 response whose body fails to parse never gives an error
\* record: the stored items are the non-empty stripped lines of the body.
C4_ParseFailureFallsBackToLines ==
  ( /\ Fetched
    /\ probe.resp.net = "ok" /\ probe.resp.status = 200 /\ probe.resp.read = "ok"
    /\ ParseFails(probe.resp) )
  => /\ ~HasError(Result.data)
     /\ Result.data =
          (Key(probe.sensor_type) :> PyList(NonEmptyLines(BodyText(probe.resp.body))))

\* the str() of the exceptions of the model
Descriptions ==
  {"", "Cannot connect to host", "Response payload is not completed",
   "Attempt to decode JSON with unexpected mimetype"}

\* the records a connection error produces: "Network error: {description}"
NetworkErrorRecords(sensor_type) ==
  {ErrorData(sensor_type, PyStr("Network error: " \o m)) : m \in Descriptions}

\* C5: a fetch whose 10 s run out, before the status or while a status 200 body
\* is read, stores a "Network error: ..." record with no items.
C5_TimeoutIsNetworkError ==
  ( /\ Fetched
    /\ \/ probe.resp.net = "timeout"
       \/ probe.resp.net = "ok" /\ probe.resp.status = 200 /\ probe.resp.read = "timeout" )
  => Result.data \in NetworkErrorRecords(probe.sensor_type)

\* C6: a status 200 response with a Content-Type other than JSON and a
\* plain-text body stores the non-empty stripped lines of the body, whether the
\* YAML load raises, returns None or returns a scalar; the state is their number.
C6_PlainTextGivesLines ==
  ( /\ Fetched
    /\ probe.resp.net = "ok" /\ probe.resp.status = 200 /\ probe.resp.read = "ok"
    /\ ~Contains(probe.resp.ctype, "application/json")
    /\ probe.resp.body.kind = "text" )
  => /\ Result.data =
          (Key(probe.sensor_type) :> PyList(NonEmptyLines(probe.resp.body.text)))
     /\ Result.exc = ""
     /\ Result.written.state = Len(NonEmptyLines(probe.resp.body.text))

\* whether the body is a JSON object with a detail field
HasDetail(body) ==
  body.kind = "json" /\ body.val.t = "dict" /\ "detail" \in DOMAIN body.val.v

Http(status) == PyStr("HTTP " \o ToString(status))

\* C7 as stated: a response with a status other than 200 and 404, its body read
\* in full, stores an error record with no items whose message is the body's
\* detail field when the body is a JSON object with one, and "HTTP {status}"
\* otherwise.
C7_DetailOfAnyJsonObject ==
  ( /\ Fetched
    /\ probe.resp.net = "ok" /\ probe.resp.status \notin {200, 404}
    /\ probe.resp.read = "ok" )
  => Result.data =
       ErrorData(probe.sensor_type,
                 IF HasDetail(probe.resp.body) THEN probe.resp.body.val.v["detail"]
                 ELSE Http(probe.resp.status))

\* C7 amended: a response with a status other than 200 and 404 stores an error
\* record with no items and state 0, and no exception leaves the fetch.  The
\* message is the body's detail field when the Content-Type is
\* application/json, the body is read in full and it is a JSON object with a
\* detail field; it is "HTTP {status}" in every other case, a JSON object
\* under another Content-Type and a failed or timed-out read included.
C7_DetailOnlyUnderJsonContentType ==
  ( /\ Fetched
    /\ probe.resp.net = "ok" /\ probe.resp.status \notin {200, 404} )
  => /\ Result.data =
          ErrorData(probe.sensor_type,
                    IF /\ Contains(probe.resp.ctype, "application/json")
                       /\ probe.resp.read = "ok"
                       /\ HasDetail(probe.resp.body)
                      THEN probe.resp.body.val.v["detail"]
                      ELSE Http(probe.resp.status))
     /\ Result.exc = ""
     /\ Result.written.state = 0

\* a status 500 fetch has stored the detail of its JSON body
C7_Witness ==
  /\ Fetched
  /\ probe.resp.net = "ok" /\ probe.resp.status = 500
  /\ Contains(probe.resp.ctype, "application/json")
  /\ HasDetail(probe.resp.body)
  /\ Result.data = ErrorData(probe.sensor_type, PyStr("db down"))

\* C8: over every refresh: one that gets a status other than 200 or a
\* connection error records UpdateFailed and leaves coordinator.data as it was;
\* one that succeeds stores the returned roster and starts a fetch of every
\* sensor registered as a listener.
C8_RefreshKeepsOrReplacesRoster ==
  [][\A resp \in PollResponses :
       Refresh(resp) =>
         IF UpdateData(resp).exc = ""
           THEN /\ coordinator'.data = PyDict("users" :> resp.body.val)
                /\ \A i \in DOMAIN listeners :
                     Len(sensors'[listeners[i]].tasks)
                       = Len(sensors[listeners[i]].tasks) + 1
           ELSE /\ coordinator'.data = coordinator.data
                /\ (resp.net = "client_error" \/ (resp.net = "ok" /\ resp.status # 200))
                     => coordinator'.last_exception.exc = "UpdateFailed"]_vars

\* C9: after a submitted form, the entry is created only if /health answered
\* 200; a 401 gives invalid_auth; every other status that is not 200 and every
\* connection failure, a timeout included, gives cannot_connect.
C9_HealthErrors ==
  flow.health.net # "none" =>
    /\ flow.step = "create_entry" => (flow.health.net = "ok" /\ flow.health.status = 200)
    /\ (flow.health.net = "ok" /\ flow.health.status = 401)
         => (flow.step = "form" /\ flow.errors = "invalid_auth")
    /\ (flow.health.net = "ok" /\ flow.health.status \notin {200, 401})
         => (flow.step = "form" /\ flow.errors = "cannot_connect")
    /\ flow.health.net \in {"client_error", "timeout"}
         => (flow.step = "form" /\ flow.errors = "cannot_connect")

\* C10: once no fetch of a sensor is in flight, its _data is the result of the
\* fetch that started last.
C10_LatestFetchWins ==
  \A id \in DOMAIN sensors :
    sensors[id].tasks = <<>> => sensors[id].source # "older"

====
